---- MODULE Spec2Model ----
(***************************************************************************)
(* Finance-Agent: the REST client wrapper FinancialDatasetsTools           *)
(* (src/agent_setup.py), its tool methods, the module-level construction   *)
(* of the agents, and the FastAPI front door (src/main.py).                *)
(*                                                                         *)
(* Conventions of the model                                                *)
(*  - Python's None is the string None; scalars of a parameter map are     *)
(*    written as their literals ("10", "3.0"), so that every value of a    *)
(*    map is comparable with every other.                                  *)
(*  - A dict with string keys is a TLA+ function whose DOMAIN is the key   *)
(*    set; an absent key is a key outside the DOMAIN.                      *)
(*  - A returned str is a record: Text(t) is the text t itself,            *)
(*    json_dumps(d) is the serialisation of the dict d.  The two are       *)
(*    different values, so re-serialising a body is visible.               *)
(***************************************************************************)
EXTENDS Integers, Sequences, FiniteSets, TLC

VARIABLES
    mode,       \* which entry point runs: "web" (main.py) or "cli" (agent_setup.py __main__)
    env,        \* os.environ, restricted to the three variables the code reads
    proc,       \* "boot", "running" or "crashed" (import raised)
    api_key,    \* FinancialDatasetsTools.api_key of the one shared tool instance
    init_key,   \* history: the api_key the instance was constructed with
    http_gets,  \* history: number of calls of requests.get so far
    req,        \* the POST /analyze request in the handler (or the last one): what it did
    cli,        \* position of the __main__ run of agent_setup.py
    lastCall,   \* history: the last tool call, its inputs and its outcome
    health,     \* status of the last GET /health response (0: none yet)
    envChanges  \* number of changes made to os.environ after start

vars == <<mode, env, proc, api_key, init_key, http_gets, req, cli, lastCall,
          health, envChanges>>

----------------------------------------------------------------------------
\* Bounds of the model.

MaxRequests == 2
MaxGets == 2
MaxEnvChanges == 1

----------------------------------------------------------------------------
\* Values.

None == "<None>"

FMP_API_KEY_ENV == "FMP_API_KEY"
BASE_URL == "https://api.financialdatasets.ai"

EnvNames == {FMP_API_KEY_ENV, "DEFAULT_MODEL", "GEMINI_API_KEY"}
EnvValues == {None, "", "v1", "v2"}
StartValues == {None, "", "v1"}

\* Python truthiness of an Optional[str].
Truthy(v) == v # None /\ v # ""

Tasks == {"task A", "task B"}

Text(t) == [str |-> "text", text |-> t]
json_dumps(d) == [str |-> "json", obj |-> d]
NoValue == [str |-> "none"]

----------------------------------------------------------------------------
\* The outbound call: what requests.get(url, headers, params) can do.
\*   response          a response was received (any status)
\*   RequestException  requests raised a RequestException before a response
\*                     was bound (ConnectionError, Timeout, ...)
\*   OtherException    requests raised an exception that is no
\*                     RequestException (UnicodeEncodeError on a header value
\*                     outside Latin-1, ...)

Statuses == {200, 204, 304, 404, 500}
Bodies == {"{\"data\": []}", "<html>oops</html>"}

Reason(status) ==
    CASE status = 200 -> "OK"
      [] status = 204 -> "No Content"
      [] status = 304 -> "Not Modified"
      [] status = 404 -> "Not Found"
      [] status = 500 -> "Internal Server Error"
      [] OTHER -> "Unknown"

Responses ==
    { [kind |-> "response", status |-> s, reason |-> Reason(s), text |-> b] :
        s \in Statuses, b \in Bodies }

RequestExceptions ==
    { [kind |-> "RequestException", exc |-> "ConnectionError", msg |-> "Connection refused"],
      [kind |-> "RequestException", exc |-> "Timeout", msg |-> "Read timed out"] }

OtherExceptions ==
    { [kind |-> "OtherException", exc |-> "UnicodeEncodeError",
       msg |-> "'latin-1' codec can't encode characters"] }

Outcomes == Responses \cup RequestExceptions \cup OtherExceptions

\* One outcome of each kind, for the tool calls made inside a request.
TeamOutcomes ==
    { o \in Outcomes :
        \/ o.kind = "response" /\ o.status = 200 /\ o.text = "{\"data\": []}"
        \/ o.kind = "RequestException" /\ o.exc = "Timeout"
        \/ o.kind = "OtherException" }

----------------------------------------------------------------------------
\* FinancialDatasetsTools.__init__ and _make_request.

\* self.api_key = api_key or os.getenv(FMP_API_KEY_ENV)
FinancialDatasetsTools_init(api_key_arg, environ) ==
    IF Truthy(api_key_arg) THEN api_key_arg ELSE environ[FMP_API_KEY_ENV]

\* if not self.api_key:
\* (variant: if self.api_key is None)
NoCredential_isNone(key) == key = None
NoCredential(key) == ~Truthy(key)

\* Response.raise_for_status(): an HTTPError for 400 <= status < 600, and
\* nothing otherwise.  The result is str(e) of the HTTPError, or None.
raise_for_status_5xxOnly(response, url) ==
    IF 500 <= response.status /\ response.status < 600
    THEN ToString(response.status) \o " Server Error: " \o response.reason
             \o " for url: " \o url
    ELSE None
raise_for_status(response, url) ==
    IF 400 <= response.status /\ response.status < 500
    THEN ToString(response.status) \o " Client Error: " \o response.reason
             \o " for url: " \o url
    ELSE IF 500 <= response.status /\ response.status < 600
    THEN ToString(response.status) \o " Server Error: " \o response.reason
             \o " for url: " \o url
    ELSE None

\* return response.text
SuccessValue_reserialized(response) == json_dumps(response.text)
SuccessValue(response) == Text(response.text)

\* error_details; response_text is response.text if 'response' in locals()
error_details(url, details, response_text) ==
    [error |-> "Request Failed", url |-> url, details |-> details,
     response_text |-> response_text]

\* The result of a call: the str returned (NoValue when an exception escaped),
\* the exception that escaped (None when the call returned), the number of
\* calls of requests.get it made and whether log_error was called.
Returned(value, gets, logged) ==
    [ret |-> value, raised |-> None, gets |-> gets, logged |-> logged]
Raised(exc) ==
    [ret |-> NoValue, raised |-> exc, gets |-> 1, logged |-> FALSE]

_make_request(key, endpoint, params, outcome) ==
    IF NoCredential(key)
    THEN Returned(json_dumps([error |-> "API key not set"]), 0, TRUE)
    ELSE LET url == BASE_URL \o "/" \o endpoint IN
         CASE outcome.kind = "response" ->
                LET e == raise_for_status(outcome, url) IN
                IF e = None
                THEN Returned(SuccessValue(outcome), 1, FALSE)
                ELSE Returned(json_dumps(error_details(url, e, outcome.text)), 1, TRUE)
           [] outcome.kind = "RequestException" ->
                Returned(json_dumps(error_details(url, outcome.msg, None)), 1, TRUE)
           [] OTHER -> Raised(outcome.exc)

----------------------------------------------------------------------------
\* The tool methods.  A call binds the supplied keyword arguments over the
\* defaults of the def line (Arg), builds params and names the endpoint;
\* ToolCall then hands both to _make_request and returns its result.

Arg(supplied, name, default) ==
    IF name \in DOMAIN supplied THEN supplied[name] ELSE default

ToolRequest(endpoint, params) == [endpoint |-> endpoint, params |-> params]

get_indian_market_screen(supplied) ==
    LET country == Arg(supplied, "country", "IN")
        change_over_period == Arg(supplied, "change_over_period", "1d")
        min_change_percent == Arg(supplied, "min_change_percent", "3.0")
        limit == Arg(supplied, "limit", "10")
    IN  ToolRequest("market/screener",
            [country |-> country, min_change_percent |-> min_change_percent,
             period |-> change_over_period, limit |-> limit])

get_income_statements_limit50(supplied) ==
    LET ticker == supplied["ticker"]
        period == Arg(supplied, "period", "annual")
        limit == Arg(supplied, "limit", "50")
    IN  ToolRequest("financials/income-statements",
            [ticker |-> ticker, period |-> period, limit |-> limit])
get_income_statements(supplied) ==
    LET ticker == supplied["ticker"]
        period == Arg(supplied, "period", "annual")
        limit == Arg(supplied, "limit", "10")
    IN  ToolRequest("financials/income-statements",
            [ticker |-> ticker, period |-> period, limit |-> limit])

get_balance_sheets(supplied) ==
    LET ticker == supplied["ticker"]
        period == Arg(supplied, "period", "annual")
        limit == Arg(supplied, "limit", "10")
    IN  ToolRequest("financials/balance-sheets",
            [ticker |-> ticker, period |-> period, limit |-> limit])

get_cash_flow_statements(supplied) ==
    LET ticker == supplied["ticker"]
        period == Arg(supplied, "period", "annual")
        limit == Arg(supplied, "limit", "10")
    IN  ToolRequest("financials/cash-flow-statements",
            [ticker |-> ticker, period |-> period, limit |-> limit])

get_company_info(supplied) ==
    LET ticker == supplied["ticker"]
    IN  ToolRequest("company", [ticker |-> ticker])

get_news_isNotNone(supplied) ==
    LET ticker == Arg(supplied, "ticker", None)
        limit == Arg(supplied, "limit", "50")
    IN  ToolRequest("news",
            IF ticker # None
            THEN [limit |-> limit, ticker |-> ticker]
            ELSE [limit |-> limit])
get_news(supplied) ==
    LET ticker == Arg(supplied, "ticker", None)
        limit == Arg(supplied, "limit", "50")
    IN  ToolRequest("news",
            IF Truthy(ticker)
            THEN [limit |-> limit, ticker |-> ticker]
            ELSE [limit |-> limit])

get_stock_prices(supplied) ==
    LET ticker == supplied["ticker"]
        interval == Arg(supplied, "interval", "1d")
        limit == Arg(supplied, "limit", "100")
    IN  ToolRequest("prices",
            [ticker |-> ticker, interval |-> interval, limit |-> limit])

search_tickers(supplied) ==
    LET query == supplied["query"]
        limit == Arg(supplied, "limit", "10")
    IN  ToolRequest("search", [query |-> query, limit |-> limit])

get_sec_filings(supplied) ==
    LET ticker == supplied["ticker"]
        form_type == Arg(supplied, "form_type", None)
        limit == Arg(supplied, "limit", "50")
    IN  ToolRequest("sec-filings",
            IF Truthy(form_type)
            THEN [ticker |-> ticker, limit |-> limit, form_type |-> form_type]
            ELSE [ticker |-> ticker, limit |-> limit])

Tools ==
    {"get_indian_market_screen", "get_income_statements", "get_balance_sheets",
     "get_cash_flow_statements", "get_company_info", "get_news",
     "get_stock_prices", "search_tickers", "get_sec_filings"}

Dispatch(op, supplied) ==
    CASE op = "get_indian_market_screen" -> get_indian_market_screen(supplied)
      [] op = "get_income_statements" -> get_income_statements(supplied)
      [] op = "get_balance_sheets" -> get_balance_sheets(supplied)
      [] op = "get_cash_flow_statements" -> get_cash_flow_statements(supplied)
      [] op = "get_company_info" -> get_company_info(supplied)
      [] op = "get_news" -> get_news(supplied)
      [] op = "get_stock_prices" -> get_stock_prices(supplied)
      [] op = "search_tickers" -> search_tickers(supplied)
      [] op = "get_sec_filings" -> get_sec_filings(supplied)

\* The def lines: the arguments without a default (a call that leaves one
\* out is a TypeError before the body runs) and those with one.
RequiredArgs(op) ==
    CASE op \in {"get_indian_market_screen", "get_news"} -> {}
      [] op = "search_tickers" -> {"query"}
      [] OTHER -> {"ticker"}

DefaultedArgs(op) ==
    CASE op = "get_indian_market_screen" ->
            {"country", "change_over_period", "min_change_percent", "limit"}
      [] op \in {"get_income_statements", "get_balance_sheets",
                 "get_cash_flow_statements"} -> {"period", "limit"}
      [] op = "get_company_info" -> {}
      [] op = "get_news" -> {"ticker", "limit"}
      [] op = "get_stock_prices" -> {"interval", "limit"}
      [] op = "search_tickers" -> {"limit"}
      [] op = "get_sec_filings" -> {"form_type", "limit"}

\* The values a caller supplies for an argument.  An Optional[str] argument
\* may be supplied as None or as the empty string.
ArgValues(op, name) ==
    CASE name = "ticker" /\ op = "get_news" -> {None, "", "RELIANCE.NS"}
      [] name = "ticker" -> {"TCS.NS"}
      [] name = "form_type" -> {None, "", "10-K"}
      [] name = "query" -> {"Reliance Industries India"}
      [] name = "period" -> {"quarterly"}
      [] name = "interval" -> {"1wk"}
      [] name = "limit" -> {"5"}
      [] name = "country" -> {"US"}
      [] name = "change_over_period" -> {"5d"}
      [] name = "min_change_percent" -> {"1.5"}

\* Every legal call of op: all required arguments, any of the others.
Calls(op) ==
    UNION { { f \in [RequiredArgs(op) \cup D -> UNION { ArgValues(op, n) :
                        n \in RequiredArgs(op) \cup D }] :
                \A n \in DOMAIN f : f[n] \in ArgValues(op, n) } :
            D \in SUBSET DefaultedArgs(op) }

\* The call with the required arguments only.
MinimalCalls(op) == { f \in Calls(op) : DOMAIN f = RequiredArgs(op) }

----------------------------------------------------------------------------
\* The front door (main.py) and the two entry points.

\* if not os.environ.get(FMP_API_KEY_ENV) or not os.environ.get("GEMINI_API_KEY"):
KeysMissing_fmpOnly(environ) == ~Truthy(environ[FMP_API_KEY_ENV])
KeysMissing(environ) ==
    ~Truthy(environ[FMP_API_KEY_ENV]) \/ ~Truthy(environ["GEMINI_API_KEY"])

\* templates.TemplateResponse("index.html", {...}): no status_code is
\* passed, so the response carries the default, 200.
TemplateResponse(analysis_result) ==
    [status_code |-> 200, analysis_result |-> analysis_result]

ErrorDiv(error_detail) ==
    "<div class='error-message'>" \o error_detail \o "</div>"

NoResponse == [status_code |-> 0, analysis_result |-> ""]

FinalResponses == {"| Stock | Analyst Score |"}
ExceptionMessages == {"429 RESOURCE_EXHAUSTED"}

IdleRequest ==
    [id |-> 0, pc |-> "idle", task |-> "", forwarded |-> "", keysMissing |-> FALSE,
     teamBuilt |-> FALSE, runCalled |-> FALSE, exc |-> None,
     response |-> NoResponse]

NoCall == [op |-> "none"]
NotIssued == [kind |-> "not issued"]

Init ==
    /\ mode \in {"web", "cli"}
    /\ env \in [EnvNames -> StartValues]
    /\ proc = "boot"
    /\ api_key = None
    /\ init_key = None
    /\ http_gets = 0
    /\ req = IdleRequest
    /\ cli = "idle"
    /\ lastCall = NoCall
    /\ health = 0
    /\ envChanges = 0

\* Importing agent_setup runs its module-level code: os.environ["DEFAULT_MODEL"]
\* and os.environ[FMP_API_KEY_ENV] raise KeyError when the variable is absent,
\* and the import (of the script, or of main.py which imports it) fails.
\* Otherwise the one FinancialDatasetsTools instance is constructed.
ImportAgentSetup ==
    /\ proc = "boot"
    /\ IF env["DEFAULT_MODEL"] = None \/ env[FMP_API_KEY_ENV] = None
       THEN /\ proc' = "crashed"
            /\ UNCHANGED <<api_key, init_key>>
       ELSE /\ proc' = "running"
            /\ api_key' = FinancialDatasetsTools_init(env[FMP_API_KEY_ENV], env)
            /\ init_key' = FinancialDatasetsTools_init(env[FMP_API_KEY_ENV], env)
    /\ UNCHANGED <<mode, env, http_gets, req, cli, lastCall, health, envChanges>>

\* os.environ is a mutable mapping of the process: its value at request time
\* (main.py reads it at lines 24 and 59) need not be its value at start.
\* Only the front door reads it after the import, and only these two names.
RequestTimeNames == {FMP_API_KEY_ENV, "GEMINI_API_KEY"}

EnvChange(name, value) ==
    /\ mode = "web"
    /\ proc = "running"
    /\ envChanges < MaxEnvChanges
    /\ value # env[name]
    /\ env' = [env EXCEPT ![name] = value]
    /\ envChanges' = envChanges + 1
    /\ UNCHANGED <<mode, proc, api_key, init_key, http_gets, req, cli, lastCall, health>>

\* GET /health
health_check ==
    /\ mode = "web"
    /\ proc = "running"
    /\ health' = 200
    /\ UNCHANGED <<mode, env, proc, api_key, init_key, http_gets, req, cli,
                   lastCall, envChanges>>

\* The handler is an async def that calls the blocking team_leader.run: while
\* one request is inside it the event loop starts no other handler, so the
\* requests pass through the handler one after another.  req is the request
\* now inside the handler, or the last one that left it.
LoopBusy == req.pc = "running"

\* POST /analyze up to the call of team_leader.run: the check of the
\* environment, then initialize_team_leader, which assigns the api_key of the
\* shared tool instance from the environment.
analyze_indian_stocks(task) ==
    /\ mode = "web"
    /\ proc = "running"
    /\ ~LoopBusy
    /\ req.id < MaxRequests
    /\ IF KeysMissing(env)
       THEN /\ req' = [IdleRequest EXCEPT
                            !.id = req.id + 1, !.pc = "done", !.task = task,
                            !.keysMissing = ~Truthy(env[FMP_API_KEY_ENV])
                                            \/ ~Truthy(env["GEMINI_API_KEY"]),
                            !.response = TemplateResponse(ErrorDiv(
                                "Required API keys are not configured in the environment."))]
            /\ UNCHANGED api_key
       ELSE /\ api_key' = env[FMP_API_KEY_ENV]
            /\ req' = [IdleRequest EXCEPT
                            !.id = req.id + 1, !.pc = "running", !.task = task,
                            !.forwarded = task,
                            !.keysMissing = ~Truthy(env[FMP_API_KEY_ENV])
                                            \/ ~Truthy(env["GEMINI_API_KEY"]),
                            !.teamBuilt = TRUE, !.runCalled = TRUE]
    /\ UNCHANGED <<mode, env, proc, init_key, http_gets, cli, lastCall, health, envChanges>>

\* team_leader.run returns: the analysis is rendered into the page.
RunReturns(final_response) ==
    /\ req.pc = "running"
    /\ req' = [req EXCEPT !.pc = "done",
                          !.response = TemplateResponse(final_response)]
    /\ UNCHANGED <<mode, env, proc, api_key, init_key, http_gets, cli, lastCall,
                   health, envChanges>>

\* team_leader.run (or initialize_team_leader) raises: except Exception as e.
RunRaises(message) ==
    /\ req.pc = "running"
    /\ req' = [req EXCEPT !.pc = "done", !.exc = message,
                          !.response = TemplateResponse(ErrorDiv(
                              "Agent execution failed. Internal error: " \o message))]
    /\ UNCHANGED <<mode, env, proc, api_key, init_key, http_gets, cli, lastCall,
                   health, envChanges>>

\* python agent_setup.py: team_leader.print_response(task, ...)
CliStart ==
    /\ mode = "cli"
    /\ proc = "running"
    /\ cli = "idle"
    /\ cli' = "running"
    /\ UNCHANGED <<mode, env, proc, api_key, init_key, http_gets, req, lastCall,
                   health, envChanges>>

CliEnd ==
    /\ cli = "running"
    /\ cli' = "done"
    /\ UNCHANGED <<mode, env, proc, api_key, init_key, http_gets, req, lastCall,
                   health, envChanges>>

\* A running team calls a tool method of the shared instance.
OrchestratorRunning == LoopBusy \/ cli = "running"

ToolCall(op, supplied, outcome) ==
    /\ OrchestratorRunning
    /\ LET request == Dispatch(op, supplied)
           result == _make_request(api_key, request.endpoint, request.params, outcome)
       IN  /\ http_gets + result.gets <= MaxGets
           /\ http_gets' = http_gets + result.gets
           /\ lastCall' = [op |-> op, supplied |-> supplied,
                           endpoint |-> request.endpoint, params |-> request.params,
                           key |-> api_key,
                           outcome |-> IF result.gets = 0 THEN NotIssued ELSE outcome,
                           gets_before |-> http_gets,
                           result |-> result]
    /\ UNCHANGED <<mode, env, proc, api_key, init_key, req, cli, health, envChanges>>

Next ==
    \/ ImportAgentSetup
    \/ \E name \in RequestTimeNames, value \in EnvValues : EnvChange(name, value)
    \/ health_check
    \/ \E task \in Tasks : analyze_indian_stocks(task)
    \/ \E f \in FinalResponses : RunReturns(f)
    \/ \E m \in ExceptionMessages : RunRaises(m)
    \/ CliStart
    \/ CliEnd
    \/ \E op \in Tools : \E supplied \in MinimalCalls(op), outcome \in TeamOutcomes :
            ToolCall(op, supplied, outcome)

Spec == Init /\ [][Next]_vars

----------------------------------------------------------------------------
\* The toolkit on its own: the team of python agent_setup.py is running and
\* calls the tool methods with every legal combination of arguments.

InitTools ==
    /\ mode = "cli"
    /\ env \in { e \in [EnvNames -> StartValues \ {None}] :
                    e["DEFAULT_MODEL"] = "v1" /\ e["GEMINI_API_KEY"] = "v1" }
    /\ proc = "running"
    /\ api_key = FinancialDatasetsTools_init(env[FMP_API_KEY_ENV], env)
    /\ init_key = api_key
    /\ http_gets = 0
    /\ req = IdleRequest
    /\ cli = "running"
    /\ lastCall = NoCall
    /\ health = 0
    /\ envChanges = 0

NextTools ==
    \E op \in Tools : \E supplied \in Calls(op), outcome \in Outcomes :
        ToolCall(op, supplied, outcome)

SpecTools == InitTools /\ [][NextTools]_vars

----------------------------------------------------------------------------
\* What the claims speak of.

Called == lastCall.op # "none"
GotResponse == Called /\ lastCall.outcome.kind = "response"
Url == BASE_URL \o "/" \o lastCall.endpoint

ConfigError == json_dumps([error |-> "API key not set"])

\* The returned value is a request_failed error carrying the url, the
\* message of the HTTP error and the body of the response received.
IsRequestFailedFromResponse ==
    LET r == lastCall.result
        o == lastCall.outcome
    IN  /\ r.raised = None
        /\ r.ret.str = "json"
        /\ DOMAIN r.ret.obj = {"error", "url", "details", "response_text"}
        /\ r.ret.obj.error = "Request Failed"
        /\ r.ret.obj.url = Url
        /\ r.ret.obj.details =
               ToString(o.status)
                   \o (IF o.status < 500 THEN " Client Error: " ELSE " Server Error: ")
                   \o o.reason \o " for url: " \o Url
        /\ r.ret.obj.response_text = o.text
        /\ r.ret # Text(o.text)

\* C1: a call made while no credential is configured returns the config
\* error and makes no call of requests.get: the count of GETs is the one
\* before the call.
C1_NoCredentialNoNetwork ==
    (Called /\ ~Truthy(lastCall.key)) =>
        /\ lastCall.result.ret = ConfigError
        /\ lastCall.result.raised = None
        /\ lastCall.result.gets = 0
        /\ http_gets = lastCall.gets_before
        /\ lastCall.outcome = NotIssued

C1_Witness ==
    /\ Called
    /\ lastCall.key = ""
    /\ lastCall.op = "get_sec_filings"
    /\ "form_type" \in DOMAIN lastCall.params
    /\ lastCall.result.ret = ConfigError

\* C2: no call of a tool ends with an exception escaping _make_request,
\* whatever the outbound call did.
C2_NeverRaises ==
    Called => lastCall.result.raised = None

C4_SuccessBodyVerbatim ==
    (GotResponse /\ lastCall.outcome.status \in 200..299) =>
        /\ lastCall.result.raised = None
        /\ lastCall.result.ret = Text(lastCall.outcome.text)

C4_Witness ==
    /\ GotResponse
    /\ lastCall.outcome.status = 204
    /\ lastCall.op = "search_tickers"
    /\ lastCall.result.ret = Text("{\"data\": []}")

Handled == req.id > 0

ConfigErrorPage ==
    TemplateResponse(ErrorDiv("Required API keys are not configured in the environment."))

\* C5: a POST /analyze that finds either environment credential missing or
\* empty answers with the error page and neither builds the team nor calls
\* team_leader.run, whatever the task.
C5_MissingKeysNoOrchestrator ==
    (Handled /\ req.keysMissing) =>
        /\ req.pc = "done"
        /\ req.response = ConfigErrorPage
        /\ ~req.teamBuilt
        /\ ~req.runCalled
        /\ req.forwarded = ""
        /\ req.exc = None

C5_Witness ==
    /\ Handled
    /\ req.keysMissing
    /\ Truthy(env[FMP_API_KEY_ENV])
    /\ ~Truthy(env["GEMINI_API_KEY"])
    /\ req.task = "task B"
    /\ req.response = ConfigErrorPage

\* C6: when the orchestrator raised during POST /analyze, the response has a
\* status code in 500..599.
C6_OrchestratorFailureIs500 ==
    (Handled /\ req.exc # None) => req.response.status_code \in 500..599

\* C7: whatever the three environment variables held at process start
\* (present, empty or absent), once the start-up code has run the service is
\* up, GET /health can be answered, and every answer it gave was 200.
C7_HealthAlways200 ==
    /\ health \in {0, 200}
    /\ (mode = "web" /\ proc # "boot") => (proc = "running" /\ ENABLED health_check)

\* The table of operations: endpoint, declared parameters and defaults.
TableEndpoint(op) ==
    CASE op = "get_indian_market_screen" -> "market/screener"
      [] op = "get_income_statements" -> "financials/income-statements"
      [] op = "get_balance_sheets" -> "financials/balance-sheets"
      [] op = "get_cash_flow_statements" -> "financials/cash-flow-statements"
      [] op = "get_company_info" -> "company"
      [] op = "get_news" -> "news"
      [] op = "get_stock_prices" -> "prices"
      [] op = "search_tickers" -> "search"
      [] op = "get_sec_filings" -> "sec-filings"

TableParams(op) ==
    CASE op = "get_indian_market_screen" ->
            {"country", "period", "min_change_percent", "limit"}
      [] op \in {"get_income_statements", "get_balance_sheets",
                 "get_cash_flow_statements"} -> {"ticker", "period", "limit"}
      [] op = "get_company_info" -> {"ticker"}
      [] op = "get_news" -> {"ticker", "limit"}
      [] op = "get_stock_prices" -> {"ticker", "interval", "limit"}
      [] op = "search_tickers" -> {"query", "limit"}
      [] op = "get_sec_filings" -> {"ticker", "form_type", "limit"}

OptionalParams(op) ==
    CASE op = "get_news" -> {"ticker"}
      [] op = "get_sec_filings" -> {"form_type"}
      [] OTHER -> {}

\* The defaults the table declares: market screen has limit=10 only.
TableDefaults(op) ==
    CASE op = "get_indian_market_screen" -> [limit |-> "10"]
      [] op \in {"get_income_statements", "get_balance_sheets",
                 "get_cash_flow_statements"} -> [period |-> "annual", limit |-> "10"]
      [] op = "get_company_info" -> [k \in {} |-> ""]
      [] op = "get_news" -> [limit |-> "50"]
      [] op = "get_stock_prices" -> [interval |-> "1d", limit |-> "100"]
      [] op = "search_tickers" -> [limit |-> "10"]
      [] op = "get_sec_filings" -> [limit |-> "50"]

\* The table's defaults, with the three more that market screen has.
AmendedDefaults(op) ==
    IF op = "get_indian_market_screen"
    THEN [country |-> "IN", period |-> "1d", min_change_percent |-> "3.0", limit |-> "10"]
    ELSE TableDefaults(op)

\* The table's name of an argument of the call.
ParamOf(arg) == IF arg = "change_over_period" THEN "period" ELSE arg

\* The arguments supplied with a value: an optional parameter passed as None
\* or as the empty string is left unset.
SuppliedArgs ==
    { a \in DOMAIN lastCall.supplied :
        ParamOf(a) \in OptionalParams(lastCall.op) => Truthy(lastCall.supplied[a]) }

MergedOver(defaults) ==
    LET keys == { ParamOf(a) : a \in SuppliedArgs }
    IN  [k \in keys \cup DOMAIN defaults |->
            IF k \in keys
            THEN lastCall.supplied[CHOOSE a \in SuppliedArgs : ParamOf(a) = k]
            ELSE defaults[k]]

\* C8 as stated: every tool call sends the endpoint of the table and the
\* supplied arguments merged over the defaults of the table.
C8_ParamsAreTableMerge ==
    Called =>
        /\ lastCall.endpoint = TableEndpoint(lastCall.op)
        /\ lastCall.params = MergedOver(TableDefaults(lastCall.op))

\* C8 amended: every tool call sends the endpoint of the table and the
\* supplied arguments merged over the defaults of the table extended by
\* country="IN", period="1d", min_change_percent=3.0 for market screen; no
\* key outside the declared parameters is sent, and income statements with
\* ticker="TCS.NS" alone sends {ticker: TCS.NS, period: annual, limit: 10}.
C8_ParamsAreMergeOverDefaults ==
    Called =>
        /\ lastCall.endpoint = TableEndpoint(lastCall.op)
        /\ lastCall.params = MergedOver(AmendedDefaults(lastCall.op))
        /\ DOMAIN lastCall.params \subseteq TableParams(lastCall.op)
        /\ \A a \in SuppliedArgs : lastCall.params[ParamOf(a)] = lastCall.supplied[a]
        /\ (lastCall.op = "get_income_statements"
              /\ DOMAIN lastCall.supplied = {"ticker"}
              /\ lastCall.supplied["ticker"] = "TCS.NS") =>
                 lastCall.params = [ticker |-> "TCS.NS", period |-> "annual", limit |-> "10"]

C8_Witness ==
    /\ Called
    /\ lastCall.op = "get_income_statements"
    /\ DOMAIN lastCall.supplied = {"ticker"}
    /\ lastCall.supplied["ticker"] = "TCS.NS"
    /\ lastCall.endpoint = "financials/income-statements"

\* C9: news sends ticker, and filings sends form_type, exactly when a value
\* (neither None nor empty) was supplied for it, and then with that value;
\* the key is never sent as None or empty; news without a ticker sends
\* limit only.
C9_OptionalKeyIffSupplied ==
    (Called /\ OptionalParams(lastCall.op) # {}) =>
        \A k \in OptionalParams(lastCall.op) :
            /\ k \in DOMAIN lastCall.params <=>
                   (k \in DOMAIN lastCall.supplied /\ Truthy(lastCall.supplied[k]))
            /\ k \in DOMAIN lastCall.params =>
                   (Truthy(lastCall.params[k]) /\ lastCall.params[k] = lastCall.supplied[k])
            /\ (lastCall.op = "get_news" /\ k \notin DOMAIN lastCall.supplied) =>
                   DOMAIN lastCall.params = {"limit"}

C9_Witness ==
    /\ Called
    /\ lastCall.op = "get_news"
    /\ "ticker" \notin DOMAIN lastCall.supplied
    /\ lastCall.params = [limit |-> "50"]

\* C10: the api_key of the shared tool instance is the one it was constructed
\* with, in every state and whatever os.environ holds at request time; so
\* every tool call reads the credential of process start.
C10_CredentialNeverMutated ==
    /\ proc = "running" => api_key = init_key
    /\ Called => lastCall.key = init_key

====
